---- MODULE Spec2Model ----
(***************************************************************************)
(* Model of static/scripts/S3/s3.inv_recv_multisite.js: the change handler *)
(* of the request selector (#link_defaultreq) issues an asynchronous GET,  *)
(* and the success callback of that GET repopulates the from-site selector *)
(* (#inv_recv_from_site_id), the to-site selector (#inv_recv_site_id) and  *)
(* sets the shipment type (#inv_recv_type).                                *)
(*                                                                         *)
(* The browser runs every handler to completion on one thread, so each     *)
(* handler is one action.  What happens inside one run of the callback     *)
(* (which options a field held when a value was forced on it, what the     *)
(* listeners of the shipment-type change saw) is kept in the record        *)
(* lastRun, written by the callback's action.                              *)
(***************************************************************************)
EXTENDS Integers, Sequences, FiniteSets

VARIABLES
    reqField,    \* value of #link_defaultreq
    fromField,   \* #inv_recv_from_site_id: [opts, val]
    toField,     \* #inv_recv_site_id: [opts, val]
    typeField,   \* value of #inv_recv_type
    inflight,    \* GETs issued by $.getJSONS3 and not yet answered
    changes,     \* number of change events the request selector has fired
    gets,        \* number of GETs issued
    lastRun      \* what the most recent run of the success callback did

vars == <<reqField, fromField, toField, typeField, inflight, changes, gets, lastRun>>

(***************************************************************************)
(* Bounds                                                                  *)
(***************************************************************************)
MaxChanges == 3      \* change events in one behaviour
MaxSites == 2        \* longest site list in a response

(***************************************************************************)
(* Values                                                                  *)
(***************************************************************************)
\* $('#inv_recv_type').val(11): 'Internal Shipment'
InternalShipment == 11

\* A select no script has given a value: the browser's default selection applies.
NoVal == "<default>"

\* Values the request selector can take; "" is 'no request selected'.
ReqVals == {"", "7"}

\* A site of a response is the pair [id, label]: site[0], site[1] in the script.
Sites == {<<"1", "Warehouse A">>, <<"2", "Warehouse B">>}

\* site[0] and site[1] of the script (TLA+ tuples count from 1)
SiteId(site) == site[1]
SiteLabel(site) == site[2]

\* The site lists a response can hold: up to MaxSites sites, none twice in a row.
SiteLists ==
    {l \in UNION {[1..n -> Sites] : n \in 0..MaxSites} :
        \A i \in 1..(Len(l) - 1) : l[i] # l[i + 1]}

\* A response body that holds its first n elements: n = 2 is the well-formed
\* body [fromSites, toSites], n = 1 is [fromSites], n = 0 is [].
WellFormed == [n : {2}, from : SiteLists, to : SiteLists]
Malformed ==
    [n : {1}, from : SiteLists, to : {<<>>}] \cup [n : {0}, from : {<<>>}, to : {<<>>}]
Responses == WellFormed \cup Malformed

\* new Option(text, value)
NewOption(text, value) == [value |-> value, text |-> text]

\* Shipment types the form may show before any response.
InitTypes == {InternalShipment, 32}

\* What the two site selectors may hold when the page is ready: options the
\* server rendered, none of them from a response.
StaleOption == NewOption("Warehouse C", "3")
InitFields ==
    { [opts |-> <<>>, val |-> NoVal],
      [opts |-> <<StaleOption>>, val |-> "3"],
      [opts |-> <<StaleOption, NewOption("Warehouse A", "1")>>, val |-> NoVal] }

(***************************************************************************)
(* jQuery operations on a select                                           *)
(***************************************************************************)
\* field.html(''): no option is left, and with them no selected value
Html(field) == [opts |-> <<>>, val |-> NoVal]

\* Faulty variant of AppendOption: new Option(site[0], site[1]), the id as the
\* label and the label as the value.
AppendOptionSwapped(field, site) ==
    [field EXCEPT !.opts = Append(@, NewOption(SiteId(site), SiteLabel(site)))]

\* field.append(new Option(site[1], site[0]))
AppendOption(field, site) ==
    [field EXCEPT !.opts = Append(@, NewOption(SiteLabel(site), SiteId(site)))]

\* field.val(v)
Val(field, v) == [field EXCEPT !.val = v]

\* for (var i=0; i < length; i++) { site = sites[i]; field.append(...) }
RECURSIVE AppendLoop(_, _, _)
AppendLoop(field, sites, i) ==
    IF i > Len(sites) THEN field
    ELSE AppendLoop(AppendOption(field, sites[i]), sites, i + 1)

(***************************************************************************)
(* The success callback, lines 21-56                                       *)
(***************************************************************************)
\* The state a run of the callback works on: the three fields and the notes
\* of the run.
StartRun(from, to, type) ==
    [ from |-> from, to |-> to, type |-> type,
      fired |-> 0,              \* times .change() was called on #inv_recv_type
      toAtChange |-> <<>>,      \* options of the to-field when .change() ran
      fromAtChange |-> Html(from),  \* the from-field when .change() ran
      fromForced |-> FALSE,     \* fromField.val(..) was called
      fromAtVal |-> <<>>,       \* options of the from-field at that call
      toForced |-> FALSE,       \* toField.val(..) was called
      toAtVal |-> <<>>,         \* options of the to-field at that call
      threw |-> FALSE ]         \* the run ended in an uncaught TypeError

\* Faulty variants of ClearAll: toField.html('') left out, fromField.html('')
\* left out, both left out.
ClearFromOnly(s) == [s EXCEPT !.from = Html(s.from)]
ClearToOnly(s) == [s EXCEPT !.to = Html(s.to)]
ClearNone(s) == s

\* lines 23-24
ClearAll(s) == [s EXCEPT !.from = Html(s.from), !.to = Html(s.to)]

\* Faulty variants of FromSelect: the label site[1] used as the value, and the
\* test on fromSitesLength left out.
FromSelectLabel(s, fromSites) ==
    IF Len(fromSites) = 1
    THEN [s EXCEPT !.from = Val(s.from, SiteLabel(fromSites[Len(fromSites)])),
                   !.fromForced = TRUE,
                   !.fromAtVal = s.from.opts]
    ELSE s
FromSelectAlways(s, fromSites) ==
    [s EXCEPT !.from = Val(s.from, SiteId(fromSites[Len(fromSites)])),
              !.fromForced = TRUE,
              !.fromAtVal = s.from.opts]

\* lines 33-36, run after the loop, when site is the last site appended:
\* if (fromSitesLength == 1) { fromField.val(site[0]); }
FromSelect(s, fromSites) ==
    IF Len(fromSites) = 1
    THEN [s EXCEPT !.from = Val(s.from, SiteId(fromSites[Len(fromSites)])),
                   !.fromForced = TRUE,
                   !.fromAtVal = s.from.opts]
    ELSE s

\* Faulty variant of SetType: .val(11) without .change()
SetTypeQuiet(s) == [s EXCEPT !.type = InternalShipment]

\* lines 37-39: $('#inv_recv_type').val(11).change()
SetType(s) ==
    [s EXCEPT !.type = InternalShipment, !.fired = @ + 1,
              !.toAtChange = s.to.opts, !.fromAtChange = s.from]

\* Faulty variant of FromStage: the shipment type set outside the test on
\* fromSitesLength.
FromStageAlwaysType(s, data) ==
    IF data.n < 1 THEN [s EXCEPT !.threw = TRUE]
    ELSE IF Len(data.from) = 0 THEN SetType(s)
    ELSE SetType(FromSelect([s EXCEPT !.from = AppendLoop(s.from, data.from, 1)],
                            data.from))

\* lines 25-40
FromStage(s, data) ==
    IF data.n < 1 THEN [s EXCEPT !.threw = TRUE]    \* data[0] is undefined: TypeError
    ELSE IF Len(data.from) = 0 THEN s
    ELSE SetType(FromSelect([s EXCEPT !.from = AppendLoop(s.from, data.from, 1)],
                            data.from))

\* Faulty variant of ToSelect: the test on toSitesLength left out.
ToSelectAlways(s, toSites) ==
    [s EXCEPT !.to = Val(s.to, SiteId(toSites[Len(toSites)])),
              !.toForced = TRUE,
              !.toAtVal = s.to.opts]

\* lines 52-55: if (toSitesLength == 1) { toField.val(site[0]); }
ToSelect(s, toSites) ==
    IF Len(toSites) = 1
    THEN [s EXCEPT !.to = Val(s.to, SiteId(toSites[Len(toSites)])),
                   !.toForced = TRUE,
                   !.toAtVal = s.to.opts]
    ELSE s

\* lines 41-55
ToStage(s, data) ==
    IF s.threw THEN s
    ELSE IF data.n < 2 THEN [s EXCEPT !.threw = TRUE]   \* data[1] is undefined: TypeError
    ELSE IF Len(data.to) = 0 THEN s                     \* return
    ELSE ToSelect([s EXCEPT !.to = AppendLoop(s.to, data.to, 1)], data.to)

\* Faulty variant of Callback: the to-sites handled before the from-sites.
CallbackToFirst(from, to, type, data) ==
    FromStage(ToStage(ClearAll(StartRun(from, to, type)), data), data)

\* function(data) { ... }
Callback(from, to, type, data) ==
    ToStage(FromStage(ClearAll(StartRun(from, to, type)), data), data)

(***************************************************************************)
(* State machine                                                           *)
(***************************************************************************)
NoRun ==
    [ seq |-> 0, req |-> "", data |-> [n |-> 0, from |-> <<>>, to |-> <<>>],
      again |-> FALSE, late |-> FALSE,
      fired |-> 0, toAtChange |-> <<>>, fromAtChange |-> [opts |-> <<>>, val |-> NoVal],
      fromForced |-> FALSE, fromAtVal |-> <<>>,
      toForced |-> FALSE, toAtVal |-> <<>>, threw |-> FALSE ]

\* $(document).ready: the fields as the server rendered them, nothing in flight
Init ==
    /\ reqField \in ReqVals
    /\ fromField \in InitFields
    /\ toField \in InitFields
    /\ typeField \in InitTypes
    /\ inflight = {}
    /\ changes = 0
    /\ gets = 0
    /\ lastRun = NoRun

\* Faulty variant of LookupSites: no request for an empty identifier.
LookupSitesGuarded(req_id) ==
    IF req_id = ""
    THEN UNCHANGED <<gets, inflight>>
    ELSE /\ gets' = gets + 1
         /\ inflight' = inflight \cup {[seq |-> gets + 1, req_id |-> req_id]}

\* lookupSites(req_id): one GET of recv_sites.json?req_id=<req_id>
LookupSites(req_id) ==
    /\ gets' = gets + 1
    /\ inflight' = inflight \cup {[seq |-> gets + 1, req_id |-> req_id]}

\* Faulty variants of Change: the handler empties the site fields before it
\* fetches; the handler fetches with the identifier it read at the change
\* before this one.
ChangeClearing(v) ==
    /\ changes < MaxChanges
    /\ reqField' = v
    /\ changes' = changes + 1
    /\ LookupSites(reqField')
    /\ fromField' = Html(fromField)
    /\ toField' = Html(toField)
    /\ UNCHANGED <<typeField, lastRun>>
ChangeStaleId(v) ==
    /\ changes < MaxChanges
    /\ reqField' = v
    /\ changes' = changes + 1
    /\ LookupSites(reqField)
    /\ UNCHANGED <<fromField, toField, typeField, lastRun>>

\* The user picks v in the request selector; its change handler runs:
\* req_id = reqField.val(); lookupSites(req_id)
Change(v) ==
    /\ changes < MaxChanges
    /\ reqField' = v
    /\ changes' = changes + 1
    /\ LookupSites(reqField')
    /\ UNCHANGED <<fromField, toField, typeField, lastRun>>

\* The notes of the run s of the callback on the reply to request r.
\* again: the run before this one processed the same body.
\* late: the run before this one answered a request issued after r.
RunNotes(r, data, s) ==
    [ seq |-> r.seq, req |-> r.req_id, data |-> data,
      again |-> (lastRun.seq > 0 /\ lastRun.data = data),
      late |-> (lastRun.seq > r.seq),
      fired |-> s.fired, toAtChange |-> s.toAtChange, fromAtChange |-> s.fromAtChange,
      fromForced |-> s.fromForced, fromAtVal |-> s.fromAtVal,
      toForced |-> s.toForced, toAtVal |-> s.toAtVal, threw |-> s.threw ]

\* Faulty variant of Reply: the reply to a request that is no longer the
\* selected one is dropped.
ReplyIfCurrent(r, data) ==
    /\ r \in inflight
    /\ inflight' = inflight \ {r}
    /\ \E s \in {IF r.req_id = reqField
                 THEN Callback(fromField, toField, typeField, data)
                 ELSE StartRun(fromField, toField, typeField)} :
           /\ fromField' = s.from
           /\ toField' = s.to
           /\ typeField' = s.type
           /\ lastRun' = RunNotes(r, data, s)
    /\ UNCHANGED <<reqField, changes, gets>>

\* Faulty variant of Reply: the reply to a request that is not the one issued
\* last is dropped.
ReplyIfLatest(r, data) ==
    /\ r \in inflight
    /\ inflight' = inflight \ {r}
    /\ \E s \in {IF r.seq = gets
                 THEN Callback(fromField, toField, typeField, data)
                 ELSE StartRun(fromField, toField, typeField)} :
           /\ fromField' = s.from
           /\ toField' = s.to
           /\ typeField' = s.type
           /\ lastRun' = RunNotes(r, data, s)
    /\ UNCHANGED <<reqField, changes, gets>>

\* The reply to request r arrives with body data: the success callback runs
\* to its end (or to its TypeError) on the fields as they are now.
Reply(r, data) ==
    /\ r \in inflight
    /\ inflight' = inflight \ {r}
    /\ \E s \in {Callback(fromField, toField, typeField, data)} :
           /\ fromField' = s.from
           /\ toField' = s.to
           /\ typeField' = s.type
           /\ lastRun' = RunNotes(r, data, s)
    /\ UNCHANGED <<reqField, changes, gets>>

\* Request r fails (network error, non-2xx status): the success callback is
\* the only callback the script registers, and it is not called.
Fail(r) ==
    /\ r \in inflight
    /\ inflight' = inflight \ {r}
    /\ UNCHANGED <<reqField, fromField, toField, typeField, changes, gets, lastRun>>

Next ==
    \/ \E v \in ReqVals : Change(v)
    \/ \E r \in inflight, data \in Responses : Reply(r, data)
    \/ \E r \in inflight : Fail(r)

Spec == Init /\ [][Next]_vars

\* The same program on a network that answers every request, with a well-formed
\* body, in the order the requests were issued.
InOrderReply(r, data) ==
    /\ \A q \in inflight : r.seq <= q.seq
    /\ Reply(r, data)

NextInOrder ==
    \/ \E v \in ReqVals : Change(v)
    \/ \E r \in inflight, data \in WellFormed : InOrderReply(r, data)

SpecInOrder == Init /\ [][NextInOrder]_vars

(***************************************************************************)
(* Properties                                                              *)
(***************************************************************************)
\* The callback has run at least once; lastRun describes its latest run.
Ran == lastRun.seq > 0

\* The options a site list stands for: (id, label) is the option of that value
\* and that label, in list order.
OptionsOf(sites) ==
    [i \in 1..Len(sites) |-> [value |-> sites[i][1], text |-> sites[i][2]]]

\* The select a site list leaves behind: its options, and its id as the value
\* when it is the only one.
FieldOf(sites) ==
    [opts |-> OptionsOf(sites), val |-> IF Len(sites) = 1 THEN sites[1][1] ELSE NoVal]

\* This step is a run of the success callback.
CallbackStep == lastRun'.seq # lastRun.seq

\* C1: after a response with exactly one from-site and exactly one to-site is
\* processed, the from-field's value is the from-site's id, the to-field's
\* value is the to-site's id and the shipment type is 11.
SingleSitesSelected ==
    (Ran /\ lastRun.data.n = 2 /\ Len(lastRun.data.from) = 1 /\ Len(lastRun.data.to) = 1)
        => /\ fromField.val = lastRun.data.from[1][1]
           /\ toField.val = lastRun.data.to[1][1]
           /\ typeField = 11

\* Such a response was processed, with different from- and to-sites, after the
\* run on another response.
SingleSitesWitness ==
    /\ Ran /\ lastRun.data.n = 2
    /\ Len(lastRun.data.from) = 1 /\ Len(lastRun.data.to) = 1
    /\ lastRun.data.from # lastRun.data.to
    /\ lastRun.late /\ ~lastRun.again
    /\ fromField.val = "2" /\ toField.val = "1"

ValueForcedOnFreshOptions ==
    Ran => /\ lastRun.fromForced => lastRun.fromAtVal = OptionsOf(lastRun.data.from)
           /\ lastRun.toForced => lastRun.toAtVal = OptionsOf(lastRun.data.to)

\* Both values were forced in a run that found the options of the run before
\* it in the fields.
ValueForcedWitness ==
    /\ Ran /\ lastRun.fromForced /\ lastRun.toForced
    /\ lastRun.again

\* C4: after a response with an empty to-list is processed, the to-field has
\* no option.
EmptyToListClearsToField ==
    (Ran /\ lastRun.data.n = 2 /\ lastRun.data.to = <<>>) => toField.opts = <<>>

\* An empty to-list came with several from-sites.
EmptyToListWitness ==
    /\ Ran /\ lastRun.data.n = 2 /\ lastRun.data.to = <<>>
    /\ Len(lastRun.data.from) > 1
    /\ toField.opts = <<>>

\* C5: a failed request or a malformed body leaves the three fields as they
\* were, or the two site fields without options and the shipment type as it
\* was.  (An uncaught TypeError ends one run of the callback, not the
\* synchronizer: later events are handled as before.)
FailureLeavesFieldsWhole ==
    [][ ((CallbackStep /\ lastRun'.data.n < 2) \/ (~CallbackStep /\ inflight' # inflight /\ gets' = gets))
          => \/ <<fromField, toField, typeField>>' = <<fromField, toField, typeField>>
             \/ /\ fromField'.opts = <<>>
                /\ toField'.opts = <<>>
                /\ typeField' = typeField ]_vars

\* C6: a run of the callback on the same body as the run before it leaves the
\* options and values of the three fields as they are.
Idempotent ==
    [][ (CallbackStep /\ Ran /\ lastRun'.data = lastRun.data)
          => <<fromField, toField, typeField>>' = <<fromField, toField, typeField>> ]_vars

\* A body with from-sites and to-sites was processed twice in a row.
IdempotentWitness ==
    /\ Ran /\ lastRun.again
    /\ lastRun.data.n = 2
    /\ Len(lastRun.data.from) > 1 /\ lastRun.data.to # <<>>

\* C7: a run on a body whose from-list is empty leaves the shipment type as it
\* is and does not fire its change handling; with both lists empty, the
\* from-field and the to-field end without options.
EmptyFromListKeepsType ==
    [][ (CallbackStep /\ lastRun'.data.n >= 1 /\ lastRun'.data.from = <<>>)
          => /\ typeField' = typeField
             /\ lastRun'.fired = 0
             /\ (lastRun'.data.n = 2 /\ lastRun'.data.to = <<>>)
                   => (fromField'.opts = <<>> /\ toField'.opts = <<>>) ]_vars

\* The body [[], []] was processed and the shipment type is still not 11.
EmptyFromListWitness ==
    /\ Ran /\ lastRun.data.n = 2
    /\ lastRun.data.from = <<>> /\ lastRun.data.to = <<>>
    /\ typeField # 11
    /\ fromField.opts = <<>> /\ toField.opts = <<>>

\* C8: after a response with more than one from-site is processed, the
\* from-field has as many options as the from-list has entries and the callback
\* has given it no value.
SeveralFromSitesNotForced ==
    (Ran /\ lastRun.data.n >= 1 /\ Len(lastRun.data.from) > 1)
        => /\ Len(fromField.opts) = Len(lastRun.data.from)
           /\ ~lastRun.fromForced
           /\ fromField.val = NoVal

\* Several from-sites were processed, after the run on another response.
SeveralFromSitesWitness ==
    /\ Ran /\ lastRun.data.n = 2 /\ Len(lastRun.data.from) > 1
    /\ lastRun.late /\ ~lastRun.again
    /\ Len(fromField.opts) > 1

\* C9: after a response with more than one to-site is processed, the to-field
\* has as many options as the to-list has entries and the callback has given it
\* no value; the callback gives the to-field a value only when the to-list has
\* exactly one entry.
SeveralToSitesNotForced ==
    Ran => /\ (lastRun.data.n = 2 /\ Len(lastRun.data.to) > 1)
                => /\ Len(toField.opts) = Len(lastRun.data.to)
                   /\ ~lastRun.toForced
                   /\ toField.val = NoVal
           /\ lastRun.toForced => (lastRun.data.n = 2 /\ Len(lastRun.data.to) = 1)
           /\ toField.val # NoVal => (lastRun.data.n = 2 /\ Len(lastRun.data.to) = 1)

\* Several to-sites were processed, with a single from-site.
SeveralToSitesWitness ==
    /\ Ran /\ lastRun.data.n = 2 /\ Len(lastRun.data.to) > 1
    /\ Len(lastRun.data.from) = 1
    /\ Len(toField.opts) > 1

\* C10: every change event of the request selector has issued exactly one GET,
\* and the GET issued last is keyed by the selector's value, empty or not.
EveryChangeFetches ==
    /\ gets = changes
    /\ \A r \in inflight : r.seq = gets => r.req_id = reqField
    /\ \A r \in inflight : r.seq \in 1..gets

\* The selector was changed to the empty identifier and the GET keyed by it is
\* in flight.
EmptyIdentifierFetched ==
    /\ changes > 0
    /\ reqField = ""
    /\ \E r \in inflight : r.seq = gets /\ r.req_id = ""

\* C11: after a well-formed response is processed, the from-field's options
\* are the from-list and the to-field's options are the to-list, entry for
\* entry and in list order, (id, label) as the option of that value and that
\* label; no option from before the run is left in either field.
OptionsAreTheLists ==
    (Ran /\ lastRun.data.n = 2)
        => /\ fromField.opts = OptionsOf(lastRun.data.from)
           /\ toField.opts = OptionsOf(lastRun.data.to)

\* Two lists of two sites, in different orders, were processed in a run that
\* followed the run on another response.
OptionsAreTheListsWitness ==
    /\ Ran /\ lastRun.data.n = 2
    /\ Len(lastRun.data.from) = 2 /\ Len(lastRun.data.to) = 2
    /\ lastRun.data.from # lastRun.data.to
    /\ lastRun.late /\ ~lastRun.again
    /\ Len(fromField.opts) = 2 /\ Len(toField.opts) = 2

\* C12: a run on a body whose from-list is not empty sets the shipment type to
\* 11 and fires its change handling exactly once, for one from-site or several
\* and for any to-list, the empty one included.
FromSitesSetTypeOnce ==
    (Ran /\ lastRun.data.n >= 1 /\ lastRun.data.from # <<>>)
        => /\ typeField = 11
           /\ lastRun.fired = 1

\* Several from-sites came with an empty to-list, and the change handling of
\* the shipment type was fired.
FromSitesSetTypeWitness ==
    /\ Ran /\ lastRun.data.n = 2
    /\ Len(lastRun.data.from) > 1 /\ lastRun.data.to = <<>>
    /\ lastRun.fired = 1 /\ typeField = 11

\* C13: the reply that arrived last was processed and is processed no second
\* time (its request is no longer in flight, and no two requests in flight are
\* the same request), and its body has overwritten the from-field and the
\* to-field, whether or not the request it answers is the selected one.
EveryReplyOverwrites ==
    Ran => /\ \A r \in inflight : r.seq # lastRun.seq
           /\ \A r, q \in inflight : r.seq = q.seq => r = q
           /\ lastRun.data.n = 2
                => /\ fromField = FieldOf(lastRun.data.from)
                   /\ toField = FieldOf(lastRun.data.to)

\* The fields show the sites of a request that is not the selected one: its
\* reply arrived after the reply to a request issued later, while the request
\* of the selected identifier is still in flight.
StaleSitesShown ==
    /\ Ran /\ lastRun.data.n = 2
    /\ lastRun.late
    /\ lastRun.req # reqField
    /\ \E r \in inflight : r.seq = gets /\ r.req_id = reqField
    /\ lastRun.data.from # <<>>
    /\ fromField.opts = OptionsOf(lastRun.data.from)

\* C14: a change event of the request selector leaves the options and values
\* of the from-field, the to-field and the shipment-type field as they are, and
\* these fields change only in a step that runs the callback on an arrived
\* reply.
ChangeOnlyFetches ==
    [][ /\ changes' # changes
            => <<fromField, toField, typeField>>' = <<fromField, toField, typeField>>
        /\ <<fromField, toField, typeField>>' # <<fromField, toField, typeField>>
            => (CallbackStep /\ changes' = changes) ]_vars

\* Between a change and its reply: the request of the newly selected identifier
\* is in flight and the fields still show the sites of the request before it.
ChangePendingWitness ==
    /\ Ran /\ lastRun.data.n = 2
    /\ inflight = {[seq |-> gets, req_id |-> reqField]}
    /\ lastRun.seq = gets - 1
    /\ lastRun.req # reqField
    /\ fromField = FieldOf(lastRun.data.from) /\ toField = FieldOf(lastRun.data.to)
    /\ lastRun.data.from # <<>> /\ lastRun.data.to # <<>>

\* C15: in a run on a body whose from-list is not empty, the change handling
\* of the shipment type is fired when both fields have been cleared and the
\* from-field holds its new options (and its forced value, for a single site),
\* and before any to-site is appended: its listeners see a to-field without
\* options.
TypeChangeSeesEmptyToField ==
    (Ran /\ lastRun.data.n >= 1 /\ lastRun.data.from # <<>>)
        => /\ lastRun.fired > 0
           /\ lastRun.toAtChange = <<>>
           /\ lastRun.fromAtChange = FieldOf(lastRun.data.from)

\* The change handling was fired in a run that found to-options in the to-field
\* and ended with to-options in it.
TypeChangeWitness ==
    /\ Ran /\ lastRun.data.n = 2
    /\ Len(lastRun.data.from) = 1 /\ lastRun.data.to # <<>>
    /\ lastRun.again
    /\ lastRun.fired = 1 /\ lastRun.toAtChange = <<>>
    /\ toField.opts # <<>>

\* C16: on a network that answers every request in the order of issue, when
\* requests were issued and none is outstanding, the reply processed last is
\* the reply to the request issued last, that request is keyed by the selected
\* identifier, and the from-field and the to-field hold the site lists of that
\* reply.
InOrderShowsSelected ==
    (gets > 0 /\ inflight = {})
        => /\ Ran
           /\ lastRun.seq = gets
           /\ lastRun.req = reqField
           /\ fromField = FieldOf(lastRun.data.from)
           /\ toField = FieldOf(lastRun.data.to)

\* The selector was changed several times, the last time to a request, and
\* every reply has been processed.
InOrderWitness ==
    /\ gets > 2 /\ inflight = {}
    /\ Ran /\ ~lastRun.again
    /\ reqField = "7"
    /\ lastRun.data.from # <<>> /\ lastRun.data.to # <<>>
    /\ fromField.opts = OptionsOf(lastRun.data.from)

====
